---- MODULE Spec2Model ----
(***************************************************************************)
(* Media catalog synchronisation and admin mutation workflow of the        *)
(* portfolio site: the gallery views (VideosPageGallery, WorkPageGallery), *)
(* the two AdminMediaManager components and the hosted store they talk to. *)
(*                                                                         *)
(* SpecSync   : one view, its in-flight fetches and change notifications.  *)
(* SpecUpload : the file upload workflow of either admin panel.            *)
(* SpecUploadOrder : the same workflow for a user with two valid files.    *)
(***************************************************************************)
EXTENDS Integers, FiniteSets, Sequences, TLC

NULL == "null"

\* ------------------------------------------------------------------------
\* Bounds of the model
\* ------------------------------------------------------------------------
MaxMutations == 2
MaxFetches == 3
MaxOps == 1
MaxClock == 1
MaxManageOps == 1
MaxConfirms == 2
MaxNameLen == 1
MaxEmailLen == 5
MaxSubmits == 2

\* the purchase inquiry modal (ContentArea.tsx, PurchaseEmailModal)
VARIABLES
    modalOpen,    \* the modal is rendered
    formData,     \* formData (name, email), each a sequence of characters
    emailState,   \* emailState (isLoading, isSuccess, isError)
    inquiries,    \* handleSubmit invocations suspended at an await
    posted,       \* POST requests sent so far (history)
    submits       \* handleSubmit invocations so far (history)

modalVars == <<modalOpen, formData, emailState, inquiries, posted, submits>>

\* formData and emailState as constructed
EmptyInquiry == [name |-> <<>>, email |-> <<>>]
EmailIdle == [isLoading |-> FALSE, isSuccess |-> FALSE, isError |-> FALSE]

\* no purchase inquiry modal is open
NoModal ==
    /\ modalOpen = FALSE
    /\ formData = EmptyInquiry
    /\ emailState = EmailIdle
    /\ inquiries = {}
    /\ posted = 0
    /\ submits = 0

\* ------------------------------------------------------------------------
\* Catalog synchronisation: state
\* ------------------------------------------------------------------------
VARIABLES
    view,         \* which component this is
    isAuthenticated, \* v2 admin panel: isAuthenticated (the other views have no login)
    mounted,      \* the component is mounted and its channel subscribed
    catalog,      \* rows of website_media in the store
    nextId,       \* next id the store assigns
    events,       \* change notifications emitted and not yet delivered
    mutations,    \* number of inserts, updates and deletes the store has executed
    fetches,      \* fetchMediaItems calls in flight
    fetchSeq,     \* number of fetchMediaItems calls initiated so far
    mediaItems,   \* the snapshot the view holds
    loading,      \* the view's loading flag
    error,        \* the view's error text (v1 admin: its error notification)
    snapshotSeq,  \* history: initiation number of the fetch that produced mediaItems
    lastOutcome   \* history: outcome of the fetch that resolved most recently

syncVars == <<view, isAuthenticated, mounted, catalog, nextId, events, mutations, fetches, fetchSeq,
              mediaItems, loading, error, snapshotSeq, lastOutcome>>

\* ------------------------------------------------------------------------
\* Admin panel: state
\* ------------------------------------------------------------------------
VARIABLES
    panel,         \* which AdminMediaManager this is: "v1" (line 60) or "v2" (line 960)
    pickable,      \* the files the user has at hand for the file inputs
    typable,       \* the texts the user types into the text inputs
    activeTab,     \* v2: activeTab; v1: uploadForm.mediatype
    newMedia,      \* v2: newMedia; v1: uploadForm (file, thumbnailFile, title)
    uploadState,   \* v2: uploadState (isUploading, status); v1: uploading
    adminError,    \* v2: error
    notification,  \* v1: notification.type
    ops,           \* handler invocations suspended at an await
    opCount,       \* number of handler invocations that reached a store call
    resetTimers,   \* v2: pending setTimeout(resetForm, 2000) callbacks
    clock,         \* Date.now()
    blobs,         \* objects of the 'media' bucket
    calls,         \* history: store calls issued by the handlers
    failedMain,    \* history: invocations whose main file upload failed
    uploadMethod,  \* v2: uploadMethod; v1: uploadForm.isExternalLink ("file" or "link")
    editing,       \* v2: editingItem; v1: editingId and editForm
    confirmDialog, \* v2: the item of the open confirmation dialog
    isDeleting,    \* v2: isDeleting
    mops,          \* link, edit and delete handler invocations suspended at an await
    mcalls,        \* history: store calls issued by those handlers, and their results
    stateTimers    \* v2: pending setTimeout(resetUploadState, 2000) callbacks

manageVars == <<uploadMethod, editing, confirmDialog, isDeleting, mops, mcalls, stateTimers>>

adminVars == <<panel, pickable, typable, activeTab, newMedia, uploadState, adminError, notification,
               ops, opCount, resetTimers, clock, blobs, calls, failedMain, manageVars>>

vars == <<syncVars, adminVars, modalVars>>

Kinds == {"artwork", "video"}
GalleryViews == {"videos", "work"}
Views == {"videos", "work", "admin", "adminV1"}
EventTypes == {"INSERT", "UPDATE", "DELETE"}
Outcomes == {"ok", "error", "throw"}

\* .eq('mediatype', ...) of the view's query; the admin views select every row
KindFilter(v) ==
    CASE v = "videos" -> {"video"}
      [] v = "work" -> {"artwork"}
      [] OTHER -> Kinds

\* the rows a select of view v returns from catalog c
Matching(v, c) == {r \in c : r.mediatype \in KindFilter(v)}

\* filter: 'mediatype=eq....' of the view's channel; the channel of the
\* authenticated admin panel has no filter
ChannelFilter(v) ==
    CASE v = "videos" -> {"video"}
      [] v = "work" -> {"artwork"}
      [] OTHER -> Kinds

\* whether a change of type t of a row of kind k reaches view v: event '*' and the
\* channel filter; the first admin panel has no channel, there this is the refresh
\* (fetchMediaItems()) its own update, delete and upload handlers end with
Notifies(v, t, k) == t \in EventTypes /\ k \in ChannelFilter(v)

\* which views have a loading flag
HasLoading(v) == v \in {"videos", "work", "adminV1"}

Titles == {"t0", "t1"}

\* what the user types into a title input
FormTitles == {"t0"}

\* texts with and without surrounding whitespace
PaddedTexts == {"t0", " t0 "}

\* String.prototype.trim on the texts of PaddedTexts and the empty text
trim(t) == CASE t = " t0 " -> "t0" [] OTHER -> t

\* a fetchMediaItems call that has just been issued
NewFetch(n) == [seq |-> n, phase |-> "sent", outcome |-> "none", data |-> {}]

\* ------------------------------------------------------------------------
\* Admin panel: files, validation, paths
\* ------------------------------------------------------------------------
MB == 1024 * 1024

ALLOWED_IMAGE_TYPES ==
    {"image/jpeg", "image/jpg", "image/png", "image/gif", "image/webp",
     "image/svg+xml", "image/bmp", "image/tiff"}

ALLOWED_VIDEO_TYPES == {"video/mp4", "video/webm", "video/ogg"}

ALL_ALLOWED_TYPES == ALLOWED_IMAGE_TYPES \cup ALLOWED_VIDEO_TYPES

MAX_IMAGE_SIZE == 10 * 1024 * 1024
MAX_VIDEO_SIZE == 100 * 1024 * 1024
MAX_THUMBNAIL_SIZE == 5 * 1024 * 1024

\* no file selected (file: null)
NoFile == [name |-> "none", ext |-> "none", type |-> "none", size |-> 0]

\* the files the user can pick: name, lower-case extension, MIME type, size in bytes
Files ==
    { [name |-> "a b.png", ext |-> "png",  type |-> "image/png",  size |-> 5 * MB],
      [name |-> "b.png",   ext |-> "png",  type |-> "image/png",  size |-> 5 * MB + 1],
      [name |-> "f.mp4",   ext |-> "mp4",  type |-> "video/mp4",  size |-> 100 * MB],
      [name |-> "g.mp4",   ext |-> "mp4",  type |-> "video/mp4",  size |-> 100 * MB + 1] }

\* the part of a MIME type before the slash
MimeClass(type) ==
    CASE type \in ALLOWED_IMAGE_TYPES \cup {"image/heic"} -> "image"
      [] type \in ALLOWED_VIDEO_TYPES -> "video"
      [] OTHER -> "other"

\* the accept attribute of the file inputs, as the file picker applies it
Accepts(p, input, tab, f) ==
    IF input = "thumbnail" THEN MimeClass(f.type) = "image"
    ELSE IF tab = "artwork" THEN MimeClass(f.type) = "image"
    ELSE IF p = "v2" THEN f.ext \in {"mp4", "webm", "ogg"}
    ELSE MimeClass(f.type) = "video"

\* validateFile(file, isThumbail).isValid
validateFile(f, isThumbnail) ==
    IF isThumbnail
    THEN /\ f.type \in ALLOWED_IMAGE_TYPES
         /\ ~(f.size > MAX_THUMBNAIL_SIZE)
    ELSE /\ f.type \in ALL_ALLOWED_TYPES
         /\ ~(f.type \in ALLOWED_IMAGE_TYPES /\ f.size > MAX_IMAGE_SIZE)
         /\ ~(f.type \in ALLOWED_VIDEO_TYPES /\ f.size > MAX_VIDEO_SIZE)
         /\ (f.type = "video/mp4" => f.ext = "mp4")
         /\ (f.type = "video/webm" => f.ext = "webm")
         /\ (f.type = "video/ogg" => f.ext \in {"ogg", "ogv"})

\* newMedia.file.name.replace(/[^a-zA-Z0-9.-]/g, '_') on the names of Files
sanitizedFileName(n) == CASE n = "a b.png" -> "a_b.png" [] OTHER -> n

\* no object (storagepath: null, video_thumbnail_path: null)
NoPath == [dir |-> "none", ts |-> 0, prefix |-> "", name |-> "none"]

\* the main file's object path: `${activeTab}s/${timestamp}_${sanitizedFileName}`
\* (v2), `videos/${Date.now()}_${name}` or `images/${Date.now()}_${name}` (v1)
MainPath(p, tab, ts, f) ==
    [dir |-> IF tab = "video" THEN "videos"
             ELSE IF p = "v2" THEN "artworks" ELSE "images",
     ts |-> ts, prefix |-> "",
     name |-> IF p = "v2" THEN sanitizedFileName(f.name) ELSE f.name]

\* the thumbnail's object path: `thumbnails/${timestamp}_${sanitized name}` (v2),
\* `thumbnails/${Date.now()}_thumbnail_${name}` (v1)
ThumbPath(p, ts, f) ==
    [dir |-> "thumbnails", ts |-> ts,
     prefix |-> IF p = "v2" THEN "" ELSE "thumbnail_",
     name |-> IF p = "v2" THEN sanitizedFileName(f.name) ELSE f.name]

\* no URL (video_thumbnail_url: null)
NoUrl == [href |-> "", path |-> NoPath]

\* supabase.storage.from('media').getPublicUrl(path).data.publicUrl
PublicUrl(path) == [href |-> "", path |-> path]

\* the URL of an external link
LinkUrl(u) == [href |-> u, path |-> NoPath]

\* the empty form (resetForm; the reset after a successful v1 upload)
EmptyForm ==
    [file |-> NoFile, thumbnailFile |-> NoFile, title |-> "", description |-> "",
     type_detail |-> "", externalUrl |-> "", linkType |-> "image"]

\* no item (editingItem: null, editingId: null, the dialog is closed, isDeleting: null)
NoItem == [id |-> 0]

\* uploadState values
IdleState == [isUploading |-> FALSE, status |-> "idle"]
UploadingState == [isUploading |-> TRUE, status |-> "uploading"]
ErrorState == [isUploading |-> FALSE, status |-> "error"]
SuccessState == [isUploading |-> FALSE, status |-> "success"]

\* no handler has run and none is running, nothing is being edited or deleted
HandlersIdle ==
    /\ uploadState = IdleState
    /\ adminError = NULL
    /\ notification = NULL
    /\ ops = {}
    /\ opCount = 0
    /\ resetTimers = 0
    /\ clock = 0
    /\ calls = {}
    /\ failedMain = {}
    /\ editing = NoItem
    /\ confirmDialog = NoItem
    /\ isDeleting = 0
    /\ mops = {}
    /\ mcalls = {}
    /\ stateTimers = 0

\* the panel with its form untouched
PanelIdle ==
    /\ activeTab = "artwork"
    /\ newMedia = EmptyForm
    /\ uploadMethod = "file"
    /\ HandlersIdle

\* the idle panel over an empty bucket
AdminIdle == PanelIdle /\ blobs = {}

\* ------------------------------------------------------------------------
\* Catalog synchronisation: operations
\* ------------------------------------------------------------------------
\* State after the mount effect ran: the first fetch is in flight and the channel
\* is subscribed.
SyncInit ==
    /\ view \in Views
    /\ isAuthenticated = TRUE
    /\ NoModal
    /\ mounted = TRUE
    /\ catalog = {}
    /\ nextId = 1
    /\ events = 0
    /\ mutations = 0
    /\ fetches = {NewFetch(1)}
    /\ fetchSeq = 1
    /\ mediaItems = {}
    /\ loading = HasLoading(view)
    /\ error = NULL
    /\ snapshotSeq = 0
    /\ lastOutcome = "none"
    /\ panel = "v2"
    /\ pickable = Files
    /\ typable = FormTitles
    /\ AdminIdle

\* the store emits a change event of type t for a row of kind k
Emit(t, k) ==
    IF mounted /\ isAuthenticated /\ Notifies(view, t, k) THEN events + 1 ELSE events

\* some session inserts a row
StoreInsert(k) ==
    /\ mutations < MaxMutations
    /\ mutations' = mutations + 1
    /\ catalog' = catalog \cup {[id |-> nextId, mediatype |-> k, title |-> "t0"]}
    /\ nextId' = nextId + 1
    /\ events' = Emit("INSERT", k)
    /\ UNCHANGED <<modalVars, view, isAuthenticated, mounted, fetches, fetchSeq, mediaItems, loading, error,
                   snapshotSeq, lastOutcome>>
    /\ UNCHANGED adminVars

\* some session edits a row
StoreUpdate(r, t) ==
    /\ r \in catalog
    /\ t # r.title
    /\ mutations < MaxMutations
    /\ mutations' = mutations + 1
    /\ catalog' = (catalog \ {r}) \cup {[r EXCEPT !.title = t]}
    /\ events' = Emit("UPDATE", r.mediatype)
    /\ UNCHANGED <<modalVars, view, isAuthenticated, mounted, nextId, fetches, fetchSeq, mediaItems, loading,
                   error, snapshotSeq, lastOutcome>>
    /\ UNCHANGED adminVars

\* some session deletes a row
StoreDelete(r) ==
    /\ r \in catalog
    /\ mutations < MaxMutations
    /\ mutations' = mutations + 1
    /\ catalog' = catalog \ {r}
    /\ events' = Emit("DELETE", r.mediatype)
    /\ UNCHANGED <<modalVars, view, isAuthenticated, mounted, nextId, fetches, fetchSeq, mediaItems, loading,
                   error, snapshotSeq, lastOutcome>>
    /\ UNCHANGED adminVars

\* (mutant) the change callback logs the payload and does not fetch
DeliverEvent_NoFetch ==
    /\ mounted
    /\ events > 0
    /\ events' = events - 1
    /\ UNCHANGED <<modalVars, view, isAuthenticated, mounted, catalog, nextId, mutations, fetches, fetchSeq,
                   mediaItems, loading, error, snapshotSeq, lastOutcome>>
    /\ UNCHANGED adminVars

\* the change callback: fetchMediaItems() is called again
DeliverEvent ==
    /\ mounted
    /\ events > 0
    /\ fetchSeq < MaxFetches
    /\ events' = events - 1
    /\ fetchSeq' = fetchSeq + 1
    /\ fetches' = fetches \cup {NewFetch(fetchSeq + 1)}
    /\ UNCHANGED <<modalVars, view, isAuthenticated, mounted, catalog, nextId, mutations, mediaItems, loading,
                   error, snapshotSeq, lastOutcome>>
    /\ UNCHANGED adminVars

\* the store answers a select: the rows as they are now, an error result, or the
\* request fails and the awaited promise rejects
FetchServe(f, o) ==
    /\ f \in fetches
    /\ f.phase = "sent"
    /\ fetches' = (fetches \ {f}) \cup
          {[f EXCEPT !.phase = "served", !.outcome = o,
                     !.data = IF o = "ok" THEN Matching(view, catalog) ELSE {}]}
    /\ UNCHANGED <<modalVars, view, isAuthenticated, mounted, catalog, nextId, events, mutations, fetchSeq,
                   mediaItems, loading, error, snapshotSeq, lastOutcome>>
    /\ UNCHANGED adminVars

\* (mutant) a failed fetch empties the snapshot
SnapshotAfter_ClearOnError(f) == IF f.outcome = "ok" THEN f.data ELSE {}

\* the snapshot after the continuation of fetchMediaItems ran on response f
SnapshotAfter(f) == IF f.outcome = "ok" THEN f.data ELSE mediaItems

\* the loading flag after the continuation ran: cleared on success and in the
\* catch block, not on the error-result return
LoadingAfter(f) ==
    IF HasLoading(view) /\ f.outcome \in {"ok", "throw"} THEN FALSE ELSE loading

\* the error text after the continuation ran: set on either failure, never cleared
ErrorAfter(f) == IF f.outcome = "ok" THEN error ELSE "Failed to load"

\* the continuation of fetchMediaItems after its await; a component that was
\* unmounted holds no state any more and the response is dropped
FetchResolve(f) ==
    /\ f \in fetches
    /\ f.phase = "served"
    /\ fetches' = fetches \ {f}
    /\ IF mounted
       THEN /\ mediaItems' = SnapshotAfter(f)
            /\ loading' = LoadingAfter(f)
            /\ error' = ErrorAfter(f)
            /\ snapshotSeq' = IF f.outcome = "ok" THEN f.seq ELSE snapshotSeq
            /\ lastOutcome' = f.outcome
       ELSE UNCHANGED <<mediaItems, loading, error, snapshotSeq, lastOutcome>>
    /\ UNCHANGED <<modalVars, view, isAuthenticated, mounted, catalog, nextId, events, mutations, fetchSeq>>
    /\ UNCHANGED adminVars

\* effect cleanup: subscription.unsubscribe()
Unmount ==
    /\ mounted
    /\ mounted' = FALSE
    /\ events' = 0
    /\ UNCHANGED <<modalVars, view, isAuthenticated, catalog, nextId, mutations, fetches, fetchSeq, mediaItems,
                   loading, error, snapshotSeq, lastOutcome>>
    /\ UNCHANGED adminVars

\* what a gallery renders: the spinner, the error text, the empty state or the grid
Rendered ==
    IF loading THEN "loading"
    ELSE IF error # NULL THEN "error"
    ELSE IF mediaItems = {} THEN "empty"
    ELSE "gallery"

SyncNext ==
    \/ \E k \in Kinds : StoreInsert(k)
    \/ \E r \in catalog, t \in Titles : StoreUpdate(r, t)
    \/ \E r \in catalog : StoreDelete(r)
    \/ DeliverEvent
    \/ \E f \in fetches, o \in Outcomes : FetchServe(f, o)
    \/ \E f \in fetches : FetchResolve(f)
    \/ Unmount

SpecSync == SyncInit /\ [][SyncNext]_vars

\* ------------------------------------------------------------------------
\* Catalog synchronisation: properties
\* ------------------------------------------------------------------------
\* this step is the continuation of fetch f running on a failed response
FailedResolveOf(f) ==
    /\ f \in fetches
    /\ f.phase = "served"
    /\ f.outcome # "ok"
    /\ fetches' = fetches \ {f}

\* this step is the continuation of fetch f running on a successful response
OkResolveOf(f) ==
    /\ f \in fetches
    /\ f.phase = "served"
    /\ f.outcome = "ok"
    /\ fetches' = fetches \ {f}

\* the rows a store mutation step touched
Touched == (catalog' \ catalog) \cup (catalog \ catalog')

\* C1: a fetch response never replaces a snapshot produced by a fetch that was
\* initiated later: the initiation number of the fetch behind the held snapshot
\* never decreases.
C1_NoStaleOverwrite == [][snapshotSeq' >= snapshotSeq]_vars

\* C2: after two inserts of the view's kind, once every notification was delivered
\* and every fetch resolved successfully, the snapshot of a subscribed gallery
\* holds both new rows.
C2_BothInsertsVisible ==
    ( /\ view \in GalleryViews
      /\ mounted
      /\ mutations = 2
      /\ Cardinality(Matching(view, catalog)) = 2
      /\ events = 0
      /\ fetches = {}
      /\ error = NULL )
    => Matching(view, catalog) \subseteq mediaItems

\* C3: while a view is subscribed, every insert, update or delete of a row of the
\* view's kind queues a notification, every notification the view receives starts
\* a new fetch, and a fetch that succeeds while the view exists delivers its rows
\* as the view's snapshot.
C3_Step ==
    (view \in {"videos", "work", "admin"} /\ mounted) =>
        /\ ( /\ mutations' = mutations + 1
             /\ \E r \in Touched : r.mediatype \in KindFilter(view) )
           => events' = events + 1
        /\ (events' = events - 1 /\ mounted')
           => ( /\ fetchSeq' = fetchSeq + 1
                /\ NewFetch(fetchSeq + 1) \in fetches' )
        /\ \A f \in fetches : OkResolveOf(f) =>
              ( /\ mediaItems' = f.data
                /\ snapshotSeq' = f.seq )

C3_EventTriggersFetch == [][C3_Step]_vars

\* C3 witness: a fetch started by a notification delivered a non-empty snapshot
C3_Witness ==
    /\ view = "videos"
    /\ mounted
    /\ snapshotSeq >= 2
    /\ mediaItems # {}

\* C4: when a fetch fails (error result or thrown), the held snapshot is exactly
\* what it was before.
C4_Step ==
    \A f \in fetches : (mounted /\ FailedResolveOf(f)) => mediaItems' = mediaItems

C4_FailedFetchKeepsSnapshot == [][C4_Step]_vars

\* C4 witness: a fetch has just failed in a view that holds a non-empty snapshot
C4_Witness ==
    /\ mounted
    /\ lastOutcome \in {"error", "throw"}
    /\ mediaItems # {}

\* C5: whenever a fetch of a gallery view fails, the view shows its error state
\* (not the loading spinner).
C5_Step ==
    \A f \in fetches :
        (view \in GalleryViews /\ mounted /\ FailedResolveOf(f)) => Rendered' = "error"

C5_FailedFetchShowsError == [][C5_Step]_vars


\* ------------------------------------------------------------------------
\* Admin panel: the upload form
\* ------------------------------------------------------------------------
\* the panel's view of the catalog, with its initial fetch already answered
SyncIdle ==
    /\ view = (IF panel = "v2" THEN "admin" ELSE "adminV1")
    /\ isAuthenticated = TRUE
    /\ NoModal
    /\ mounted = TRUE
    /\ catalog = {}
    /\ nextId = 1
    /\ events = 0
    /\ mutations = 0
    /\ fetches = {}
    /\ fetchSeq = 0
    /\ mediaItems = {}
    /\ loading = FALSE
    /\ error = NULL
    /\ snapshotSeq = 0
    /\ lastOutcome = "none"

UploadInit ==
    /\ panel \in {"v1", "v2"}
    /\ pickable = Files
    /\ typable = FormTitles
    /\ AdminIdle
    /\ SyncIdle

\* the same panels, for a user who has one image and one video at hand
UploadOrderInit ==
    /\ panel \in {"v1", "v2"}
    /\ pickable = {f \in Files : f.name \in {"a b.png", "f.mp4"}}
    /\ typable = FormTitles
    /\ AdminIdle
    /\ SyncIdle

syncRest == <<modalVars, view, isAuthenticated, mounted, events, mutations, fetches, fetchSeq, mediaItems,
              loading, error, snapshotSeq, lastOutcome>>

\* the tab buttons (v2), the media type buttons (v1)
setActiveTab(t) ==
    /\ t # activeTab
    /\ activeTab' = t
    /\ UNCHANGED manageVars
    /\ UNCHANGED <<panel, pickable, typable, newMedia, uploadState, adminError, notification, ops,
                   opCount, resetTimers, clock, blobs, calls, failedMain>>
    /\ UNCHANGED <<syncRest, catalog, nextId>>

\* the title input (v2: it edits newMedia unless an item is being edited)
setTitle(t) ==
    /\ panel = "v2" => editing = NoItem
    /\ t # newMedia.title
    /\ newMedia' = [newMedia EXCEPT !.title = t]
    /\ UNCHANGED manageVars
    /\ UNCHANGED <<panel, pickable, typable, activeTab, uploadState, adminError, notification, ops,
                   opCount, resetTimers, clock, blobs, calls, failedMain>>
    /\ UNCHANGED <<syncRest, catalog, nextId>>

\* the description textarea
setDescription(t) ==
    /\ panel = "v2" => editing = NoItem
    /\ t # newMedia.description
    /\ newMedia' = [newMedia EXCEPT !.description = t]
    /\ UNCHANGED manageVars
    /\ UNCHANGED <<panel, pickable, typable, activeTab, uploadState, adminError,
                   notification, ops, opCount, resetTimers, clock, blobs, calls,
                   failedMain>>
    /\ UNCHANGED <<syncRest, catalog, nextId>>

\* the type detail input (rendered for artwork only)
setTypeDetail(t) ==
    /\ activeTab = "artwork"
    /\ panel = "v2" => editing = NoItem
    /\ t # newMedia.type_detail
    /\ newMedia' = [newMedia EXCEPT !.type_detail = t]
    /\ UNCHANGED manageVars
    /\ UNCHANGED <<panel, pickable, typable, activeTab, uploadState, adminError,
                   notification, ops, opCount, resetTimers, clock, blobs, calls,
                   failedMain>>
    /\ UNCHANGED <<syncRest, catalog, nextId>>

\* v2: the main file input's onChange
handleFileSelect(f) ==
    /\ panel = "v2"
    /\ ~uploadState.isUploading
    /\ Accepts("v2", "file", activeTab, f)
    /\ IF validateFile(f, FALSE)
       THEN /\ newMedia' = [newMedia EXCEPT !.file = f]
            /\ adminError' = NULL
            /\ uploadState' = IdleState
       ELSE /\ adminError' = "validation"
            /\ UNCHANGED <<newMedia, uploadState>>
    /\ UNCHANGED manageVars
    /\ UNCHANGED <<panel, pickable, typable, activeTab, notification, ops, opCount, resetTimers, clock,
                   blobs, calls, failedMain>>
    /\ UNCHANGED <<syncRest, catalog, nextId>>

\* v2: the thumbnail input's onChange (the input exists on the video tab)
handleThumbnailSelect(f) ==
    /\ panel = "v2"
    /\ activeTab = "video"
    /\ ~uploadState.isUploading
    /\ Accepts("v2", "thumbnail", activeTab, f)
    /\ IF validateFile(f, TRUE)
       THEN /\ newMedia' = [newMedia EXCEPT !.thumbnailFile = f]
            /\ adminError' = NULL
       ELSE /\ adminError' = "validation"
            /\ UNCHANGED newMedia
    /\ UNCHANGED manageVars
    /\ UNCHANGED <<panel, pickable, typable, activeTab, uploadState, notification, ops, opCount,
                   resetTimers, clock, blobs, calls, failedMain>>
    /\ UNCHANGED <<syncRest, catalog, nextId>>

\* v1: the main file input's onChange: no validation
v1_selectFile(f) ==
    /\ panel = "v1"
    /\ Accepts("v1", "file", activeTab, f)
    /\ newMedia' = [newMedia EXCEPT !.file = f]
    /\ UNCHANGED manageVars
    /\ UNCHANGED <<panel, pickable, typable, activeTab, uploadState, adminError, notification, ops,
                   opCount, resetTimers, clock, blobs, calls, failedMain>>
    /\ UNCHANGED <<syncRest, catalog, nextId>>

\* v1: the thumbnail input's onChange (the input exists for media type video)
v1_selectThumbnail(f) ==
    /\ panel = "v1"
    /\ activeTab = "video"
    /\ Accepts("v1", "thumbnail", activeTab, f)
    /\ newMedia' = [newMedia EXCEPT !.thumbnailFile = f]
    /\ UNCHANGED manageVars
    /\ UNCHANGED <<panel, pickable, typable, activeTab, uploadState, adminError, notification, ops,
                   opCount, resetTimers, clock, blobs, calls, failedMain>>
    /\ UNCHANGED <<syncRest, catalog, nextId>>

\* a handler invocation suspended at its first await (the main file upload)
\* (fileName and thumbnailFileName are the paths it uploads to, thumbnailPath
\* is its local variable of that name, thumbFailed is history)
NewOp(id, ts) ==
    [id |-> id, file |-> newMedia.file, thumb |-> newMedia.thumbnailFile,
     tab |-> activeTab, title |-> newMedia.title,
     description |-> newMedia.description, type_detail |-> newMedia.type_detail,
     ts |-> ts, pc |-> "upload",
     fileName |-> MainPath(panel, activeTab, ts, newMedia.file),
     thumbnailFileName |-> NoPath, thumbnailPath |-> NoPath, thumbFailed |-> FALSE]

\* a store call issued by invocation o
Call(o, c) ==
    [op |-> o.id, call |-> c, file |-> o.file, thumb |-> o.thumb, tab |-> o.tab,
     path |-> o.fileName]

\* whether handleFileUpload passes its validation and reaches the upload
\* (v2: main file, then the thumbnail if one is set; v1 validates nothing)
PassesValidation(p, form) ==
    \/ p = "v1"
    \/ /\ validateFile(form.file, FALSE)
       /\ (form.thumbnailFile # NoFile => validateFile(form.thumbnailFile, TRUE))

\* time passes: Date.now() returns a later value
Tick ==
    /\ clock < MaxClock
    /\ clock' = clock + 1
    /\ UNCHANGED manageVars
    /\ UNCHANGED <<panel, pickable, typable, activeTab, newMedia, uploadState, adminError, notification,
                   ops, opCount, resetTimers, blobs, calls, failedMain>>
    /\ UNCHANGED <<syncRest, catalog, nextId>>

\* the Upload button: handleFileUpload up to the first await
handleFileUpload ==
    /\ opCount < MaxOps
    /\ ~uploadState.isUploading
    /\ uploadMethod = "file"
    /\ newMedia.file # NoFile
    /\ panel = "v2" => (editing = NoItem /\ trim(newMedia.title) # "")
    /\ IF PassesValidation(panel, newMedia)
       THEN /\ adminError' = (IF panel = "v2" THEN NULL ELSE adminError)
            /\ uploadState' = UploadingState
            /\ opCount' = opCount + 1
            /\ ops' = ops \cup {NewOp(opCount + 1, clock)}
            /\ calls' = calls \cup {Call(NewOp(opCount + 1, clock), "storage.upload")}
       ELSE /\ adminError' = "validation"
            /\ UNCHANGED <<uploadState, opCount, ops, calls>>
    /\ UNCHANGED manageVars
    /\ UNCHANGED <<panel, pickable, typable, activeTab, newMedia, notification, resetTimers, clock, blobs,
                   failedMain>>
    /\ UNCHANGED <<syncRest, catalog, nextId>>

\* (mutant) the result of the main upload is not inspected
StepAfterUpload_IgnoreError(o, outcome) ==
    IF o.thumb # NoFile /\ o.tab = "video" THEN "thumbnail" ELSE "insert"

\* what handleFileUpload does once the main upload has resolved with `outcome`
StepAfterUpload(o, outcome) ==
    IF outcome # "ok" THEN "abort"
    ELSE IF o.thumb # NoFile /\ o.tab = "video" THEN "thumbnail"
    ELSE "insert"

\* the paths of the objects in the bucket
Paths == {b.path : b \in blobs}

\* the outcomes a storage upload to `path` can have (v2 passes upsert: false,
\* v1 leaves the default, which is the same)
UploadOutcomes(path) == IF path \in Paths THEN Outcomes \ {"ok"} ELSE Outcomes

\* (mutant) a failure path that leaves the in-progress flag as it is
Abort_FlagLeftSet(why) ==
    /\ UNCHANGED uploadState
    /\ IF panel = "v2"
       THEN adminError' = why /\ UNCHANGED notification
       ELSE notification' = "error" /\ UNCHANGED adminError

\* what the user sees when the handler gives up: v2 sets the error upload state
\* and the error text, v1 shows an error notification and clears `uploading`
Abort(why) ==
    IF panel = "v2"
    THEN /\ uploadState' = ErrorState
         /\ adminError' = why
         /\ UNCHANGED notification
    ELSE /\ uploadState' = IdleState
         /\ notification' = "error"
         /\ UNCHANGED adminError

\* handleFileUpload resumes after `await supabase.storage.upload(main file)`
handleFileUpload_afterUpload(o, outcome) ==
    /\ o \in ops
    /\ o.pc = "upload"
    /\ outcome \in UploadOutcomes(o.fileName)
    /\ blobs' = IF outcome = "ok"
                THEN blobs \cup {[path |-> o.fileName, file |-> o.file]}
                ELSE blobs
    /\ failedMain' = IF outcome = "ok" THEN failedMain ELSE failedMain \cup {o.id}
    /\ LET step == StepAfterUpload(o, outcome)
           \* v1 names the thumbnail with a second Date.now()
           tts == IF panel = "v1" THEN clock ELSE o.ts
       IN  CASE step = "abort" ->
                  /\ Abort(IF outcome = "error" THEN "upload" ELSE "exception")
                  /\ ops' = ops \ {o}
                  /\ UNCHANGED calls
             [] step = "thumbnail" ->
                  /\ ops' = (ops \ {o}) \cup
                            {[o EXCEPT !.pc = "thumbnail",
                                       !.thumbnailFileName = ThumbPath(panel, tts, o.thumb)]}
                  /\ calls' = calls \cup {Call(o, "storage.upload.thumbnail")}
                  /\ UNCHANGED <<uploadState, adminError, notification>>
             [] step = "insert" ->
                  /\ ops' = (ops \ {o}) \cup {[o EXCEPT !.pc = "insert"]}
                  /\ calls' = calls \cup {Call(o, "insert")}
                  /\ UNCHANGED <<uploadState, adminError, notification>>
    /\ UNCHANGED manageVars
    /\ UNCHANGED <<panel, pickable, typable, activeTab, newMedia, opCount, resetTimers, clock>>
    /\ UNCHANGED <<syncRest, catalog, nextId>>

\* handleFileUpload resumes after `await supabase.storage.upload(thumbnail)`
handleFileUpload_afterThumbnail(o, outcome) ==
    /\ o \in ops
    /\ o.pc = "thumbnail"
    /\ outcome \in UploadOutcomes(o.thumbnailFileName)
    /\ blobs' = IF outcome = "ok"
                THEN blobs \cup {[path |-> o.thumbnailFileName, file |-> o.thumb]}
                ELSE blobs
    /\ CASE outcome = "ok" ->
              /\ ops' = (ops \ {o}) \cup
                        {[o EXCEPT !.pc = "insert",
                                   !.thumbnailPath = o.thumbnailFileName]}
              /\ calls' = calls \cup {Call(o, "insert")}
              /\ UNCHANGED <<uploadState, adminError, notification>>
         [] outcome = "error" ->
              \* v2 logs and continues; v1 shows 'Thumbnail upload failed' and continues
              /\ ops' = (ops \ {o}) \cup {[o EXCEPT !.pc = "insert", !.thumbFailed = TRUE]}
              /\ calls' = calls \cup {Call(o, "insert")}
              /\ notification' = (IF panel = "v1" THEN "error" ELSE notification)
              /\ UNCHANGED <<uploadState, adminError>>
         [] outcome = "throw" ->
              /\ Abort("exception")
              /\ ops' = ops \ {o}
              /\ UNCHANGED calls
    /\ UNCHANGED manageVars
    /\ UNCHANGED <<panel, pickable, typable, activeTab, newMedia, opCount, resetTimers, clock, failedMain>>
    /\ UNCHANGED <<syncRest, catalog, nextId>>

\* the row handleFileUpload inserts (op, size: history of where the row came from)
UploadRow(o, id) ==
    [id |-> id, op |-> o.id,
     name |-> IF panel = "v2" THEN sanitizedFileName(o.file.name) ELSE o.file.name,
     type |-> o.file.type, size |-> o.file.size,
     title |-> IF panel = "v2" THEN trim(o.title)
               ELSE IF o.title = "" THEN o.file.name ELSE o.title,
     description |-> IF panel = "v2" THEN trim(o.description) ELSE o.description,
     type_detail |-> IF panel = "v1" THEN o.type_detail
                     ELSE IF o.tab = "artwork" THEN trim(o.type_detail) ELSE "",
     mediatype |-> o.tab, isexternallink |-> FALSE,
     url |-> PublicUrl(o.fileName),
     storagepath |-> o.fileName,
     video_thumbnail_url |-> IF o.thumbnailPath = NoPath THEN NoUrl
                             ELSE PublicUrl(o.thumbnailPath),
     video_thumbnail_path |-> o.thumbnailPath]

\* resetForm
FormReset ==
    /\ newMedia' = EmptyForm
    /\ uploadState' = IdleState

\* (mutant) a failed insert is compensated by removing the uploaded objects
BlobsAfterInsert_Rollback(o, outcome) ==
    IF outcome = "ok" THEN blobs
    ELSE {b \in blobs : b.path \notin {o.fileName, o.thumbnailPath}}

\* the bucket once the insert has resolved: handleFileUpload calls no
\* storage.remove on any branch, the uploaded objects stay
BlobsAfterInsert(o, outcome) == blobs

\* handleFileUpload resumes after `await supabase.from('website_media').insert()`
handleFileUpload_afterInsert(o, outcome) ==
    /\ o \in ops
    /\ o.pc = "insert"
    /\ outcome \in Outcomes
    /\ ops' = ops \ {o}
    /\ IF outcome = "ok"
       THEN /\ catalog' = catalog \cup {UploadRow(o, nextId)}
            /\ nextId' = nextId + 1
            /\ mutations' = mutations + 1
            /\ events' = Emit("INSERT", o.tab)
            /\ IF panel = "v2"
               THEN /\ uploadState' = SuccessState
                    /\ resetTimers' = resetTimers + 1
                    /\ UNCHANGED <<newMedia, activeTab, notification>>
                    /\ UNCHANGED <<fetches, fetchSeq>>
               ELSE /\ notification' = "success"
                    /\ newMedia' = EmptyForm
                    /\ activeTab' = "artwork"
                    /\ uploadState' = IdleState
                    \* fetchMediaItems()
                    /\ fetchSeq' = fetchSeq + 1
                    /\ fetches' = fetches \cup {NewFetch(fetchSeq + 1)}
                    /\ UNCHANGED resetTimers
            /\ UNCHANGED adminError
       ELSE /\ Abort(IF outcome = "error" THEN "persist" ELSE "exception")
            /\ UNCHANGED <<catalog, nextId, newMedia, activeTab, resetTimers,
                           mutations, events, fetches, fetchSeq>>
    /\ blobs' = BlobsAfterInsert(o, outcome)
    /\ UNCHANGED manageVars
    /\ UNCHANGED <<panel, pickable, typable, opCount, clock, calls, failedMain>>
    /\ UNCHANGED <<modalVars, view, isAuthenticated, mounted, mediaItems, loading, error, snapshotSeq, lastOutcome>>

\* v2: the callback of setTimeout(() => resetForm(), 2000)
resetFormTimer ==
    /\ resetTimers > 0
    /\ resetTimers' = resetTimers - 1
    /\ FormReset
    /\ UNCHANGED manageVars
    /\ UNCHANGED <<panel, pickable, typable, activeTab, adminError, notification, ops, opCount, clock,
                   blobs, calls, failedMain>>
    /\ UNCHANGED <<syncRest, catalog, nextId>>

\* v1: the callback of showNotification's setTimeout(() => setNotification(null), 5000)
clearNotification ==
    /\ notification # NULL
    /\ notification' = NULL
    /\ UNCHANGED manageVars
    /\ UNCHANGED <<panel, pickable, typable, activeTab, newMedia, uploadState, adminError, ops, opCount,
                   resetTimers, clock, blobs, calls, failedMain>>
    /\ UNCHANGED <<syncRest, catalog, nextId>>

UploadNext ==
    \/ \E t \in Kinds : setActiveTab(t)
    \/ \E t \in typable : setTitle(t)
    \/ \E f \in pickable : handleFileSelect(f)
    \/ \E f \in pickable : handleThumbnailSelect(f)
    \/ \E f \in pickable : v1_selectFile(f)
    \/ \E f \in pickable : v1_selectThumbnail(f)
    \/ Tick
    \/ handleFileUpload
    \/ \E o \in ops, outcome \in Outcomes : handleFileUpload_afterUpload(o, outcome)
    \/ \E o \in ops, outcome \in Outcomes : handleFileUpload_afterThumbnail(o, outcome)
    \/ \E o \in ops, outcome \in Outcomes : handleFileUpload_afterInsert(o, outcome)
    \/ resetFormTimer
    \/ clearNotification

SpecUpload == UploadInit /\ [][UploadNext]_vars

SpecUploadOrder == UploadOrderInit /\ [][UploadNext]_vars

\* the upload form with all its text inputs, for a user who types texts with
\* and without surrounding whitespace
UploadMetaInit ==
    /\ panel \in {"v1", "v2"}
    /\ pickable = {f \in Files : f.name \in {"a b.png", "f.mp4"}}
    /\ typable = PaddedTexts
    /\ AdminIdle
    /\ SyncIdle

UploadMetaNext ==
    \/ UploadNext
    \/ \E t \in typable : setDescription(t)
    \/ \E t \in typable : setTypeDetail(t)

SpecUploadMeta == UploadMetaInit /\ [][UploadMetaNext]_vars

\* ------------------------------------------------------------------------
\* Admin panel: external links
\* ------------------------------------------------------------------------

\* an entry of the call log: the call (or its result) of invocation o, with the
\* row id, the object path or the URL it names
MCall(o, c, t, p, u) == [op |-> o, call |-> c, target |-> t, path |-> p, url |-> u]

\* the number of handler invocations so far that issued one of the calls K
Issued(K) == Cardinality({c.op : c \in {x \in mcalls : x.call \in K}})

\* what the user types into the URL input
Urls == {"https://a.example/v", "not a url"}

\* validateUrl(url).isValid: `new URL(url)` does not throw
validateUrl(u) == u \in {"https://a.example/v"}

\* the frame of the form actions below
FormFrame ==
    /\ UNCHANGED <<panel, pickable, typable, uploadState, adminError, notification,
                   ops, opCount, resetTimers, clock, blobs, calls, failedMain>>
    /\ UNCHANGED <<editing, confirmDialog, isDeleting, mops, mcalls, stateTimers>>
    /\ UNCHANGED <<syncRest, catalog, nextId>>

\* the Upload File / External Link (v2: Add Link) buttons
setUploadMethod(m) ==
    /\ m # uploadMethod
    /\ panel = "v2" => editing = NoItem
    /\ uploadMethod' = m
    /\ UNCHANGED <<activeTab, newMedia>>
    /\ FormFrame

\* the URL input, rendered for the link method
setExternalUrl(u) ==
    /\ uploadMethod = "link"
    /\ panel = "v2" => editing = NoItem
    /\ u # newMedia.externalUrl
    /\ newMedia' = [newMedia EXCEPT !.externalUrl = u]
    /\ UNCHANGED <<activeTab, uploadMethod>>
    /\ FormFrame

\* v2: the Image / Video link type buttons
setLinkType(t) ==
    /\ panel = "v2"
    /\ uploadMethod = "link"
    /\ editing = NoItem
    /\ t # newMedia.linkType
    /\ newMedia' = [newMedia EXCEPT !.linkType = t]
    /\ UNCHANGED <<activeTab, uploadMethod>>
    /\ FormFrame

\* the record an external-link submission inserts: mediaDoc of
\* handleLinkSubmission (v2), mediaData of handleExternalLinkUpload (v1);
\* columns the payload leaves out are null
LinkRow(id) ==
    [id |-> id, op |-> id,
     name |-> IF panel = "v2" THEN trim(newMedia.title)
              ELSE IF newMedia.title = "" THEN "External Link" ELSE newMedia.title,
     type |-> IF panel = "v2"
              THEN (IF newMedia.linkType = "image" THEN "image-link" ELSE "video-link")
              ELSE (IF activeTab = "video" THEN "video-link" ELSE "image-link"),
     size |-> 0,
     url |-> LinkUrl(IF panel = "v2" THEN trim(newMedia.externalUrl)
                     ELSE newMedia.externalUrl),
     title |-> IF panel = "v2" THEN trim(newMedia.title)
               ELSE IF newMedia.title = "" THEN "External Link" ELSE newMedia.title,
     description |-> IF panel = "v2" THEN trim(newMedia.description)
                     ELSE newMedia.description,
     type_detail |-> IF panel = "v1" THEN newMedia.type_detail
                     ELSE IF activeTab = "artwork" THEN trim(newMedia.type_detail) ELSE "",
     mediatype |-> activeTab, isexternallink |-> TRUE,
     storagepath |-> NoPath, video_thumbnail_url |-> NoUrl,
     video_thumbnail_path |-> NoPath]

\* whether the link handler passes its checks and reaches the insert: v2 needs
\* a URL that parses, v1 a non-empty one
LinkPasses ==
    IF panel = "v2" THEN validateUrl(trim(newMedia.externalUrl))
    ELSE newMedia.externalUrl # ""

\* the Save Link button (v2: handleLinkSubmission) or the Upload button in link
\* mode (v1: handleUpload -> handleExternalLinkUpload), up to the awaited insert
handleLinkSubmission ==
    /\ Issued({"insert"}) < MaxManageOps
    /\ uploadMethod = "link"
    /\ ~uploadState.isUploading
    /\ IF panel = "v2"
       THEN /\ editing = NoItem
            /\ trim(newMedia.title) # ""
            /\ trim(newMedia.externalUrl) # ""
       ELSE newMedia.file # NoFile \/ newMedia.externalUrl # ""
    /\ IF LinkPasses
       THEN /\ adminError' = (IF panel = "v2" THEN NULL ELSE adminError)
            /\ uploadState' = UploadingState
            /\ opCount' = opCount + 1
            /\ mops' = mops \cup {[id |-> opCount + 1, kind |-> "link", pc |-> "insert",
                                  row |-> LinkRow(opCount + 1)]}
            /\ mcalls' = mcalls \cup
                   {MCall(opCount + 1, "insert", 0, NoPath, LinkRow(0).url.href)}
            /\ UNCHANGED notification
       ELSE /\ IF panel = "v2"
               THEN adminError' = "validation" /\ UNCHANGED notification
               ELSE notification' = "error" /\ UNCHANGED adminError
            /\ UNCHANGED <<uploadState, opCount, mops, mcalls>>
    /\ UNCHANGED <<panel, pickable, typable, activeTab, newMedia, ops, resetTimers,
                   clock, blobs, calls, failedMain>>
    /\ UNCHANGED <<uploadMethod, editing, confirmDialog, isDeleting, stateTimers>>
    /\ UNCHANGED <<syncRest, catalog, nextId>>

\* (mutant) the store fills in a storage path for a link
InsertedLink_Stored(o, id) ==
    [o.row EXCEPT !.id = id,
                  !.storagepath = [dir |-> "artworks", ts |-> 0, prefix |-> "", name |-> "x"]]

\* the row the store adds for the link insert of invocation o: the payload and
\* the generated id
InsertedLink(o, id) == [o.row EXCEPT !.id = id]

\* the link handler resumes after `await supabase.from('website_media').insert()`
handleLinkSubmission_afterInsert(o, outcome) ==
    /\ o \in mops
    /\ o.kind = "link"
    /\ outcome \in Outcomes
    /\ mops' = mops \ {o}
    /\ IF outcome = "ok"
       THEN /\ catalog' = catalog \cup {InsertedLink(o, nextId)}
            /\ nextId' = nextId + 1
            /\ mutations' = mutations + 1
            /\ events' = Emit("INSERT", o.row.mediatype)
            /\ IF panel = "v2"
               THEN /\ uploadState' = SuccessState
                    /\ resetTimers' = resetTimers + 1
                    /\ UNCHANGED <<newMedia, activeTab, notification, uploadMethod>>
                    /\ UNCHANGED <<fetches, fetchSeq>>
               ELSE /\ notification' = "success"
                    /\ newMedia' = EmptyForm
                    /\ activeTab' = "artwork"
                    /\ uploadMethod' = "file"
                    /\ uploadState' = IdleState
                    \* fetchMediaItems()
                    /\ fetchSeq' = fetchSeq + 1
                    /\ fetches' = fetches \cup {NewFetch(fetchSeq + 1)}
                    /\ UNCHANGED resetTimers
            /\ UNCHANGED adminError
       ELSE /\ Abort(IF outcome = "error" THEN "persist" ELSE "exception")
            /\ UNCHANGED <<catalog, nextId, newMedia, activeTab, resetTimers,
                           uploadMethod, mutations, events, fetches, fetchSeq>>
    /\ UNCHANGED <<panel, pickable, typable, ops, opCount, clock, blobs, calls, failedMain>>
    /\ UNCHANGED <<editing, confirmDialog, isDeleting, mcalls, stateTimers>>
    /\ UNCHANGED <<modalVars, view, isAuthenticated, mounted, mediaItems, loading, error, snapshotSeq, lastOutcome>>

\* ------------------------------------------------------------------------
\* Admin panel: edits
\* ------------------------------------------------------------------------

\* the fields an edit form holds
EditFields == {"title", "description", "type_detail", "name"}

\* the edit state for item r: v2 keeps a copy of the item (editingItem), v1
\* copies four of its fields into editForm; `changed` is history: the fields
\* the user has typed into
EditOf(r) ==
    [id |-> r.id, mediatype |-> r.mediatype,
     form |-> [title |-> r.title, description |-> r.description,
               type_detail |-> r.type_detail, name |-> r.name],
     changed |-> {}]

\* the frame of the edit form actions
EditFrame ==
    /\ UNCHANGED <<panel, pickable, typable, activeTab, newMedia, adminError,
                   notification, ops, opCount, resetTimers, clock, blobs, calls,
                   failedMain>>
    /\ UNCHANGED <<uploadMethod, confirmDialog, isDeleting, mops, mcalls, stateTimers>>
    /\ UNCHANGED <<syncRest, catalog, nextId>>

\* the Edit button of an item of the list (v2 lists the items of the active tab)
startEdit(r) ==
    /\ r \in mediaItems
    /\ panel = "v2" => r.mediatype = activeTab
    /\ editing # EditOf(r)
    /\ editing' = EditOf(r)
    /\ UNCHANGED uploadState
    /\ EditFrame

\* typing into a field of the edit form (the type detail input is rendered for
\* artwork: v2 tests activeTab, v1 the item's mediatype)
editField(f, t) ==
    /\ editing # NoItem
    /\ f \in {"title", "description", "type_detail"}
    /\ f = "type_detail" =>
           (IF panel = "v2" THEN activeTab ELSE editing.mediatype) = "artwork"
    /\ t # editing.form[f]
    /\ editing' = [editing EXCEPT !.form[f] = t, !.changed = @ \cup {f}]
    /\ UNCHANGED uploadState
    /\ EditFrame

\* the Cancel button of the edit form
cancelEdit ==
    /\ editing # NoItem
    /\ panel = "v2" => ~uploadState.isUploading
    /\ editing' = NoItem
    /\ uploadState' = (IF panel = "v2" THEN IdleState ELSE uploadState)
    /\ EditFrame

\* (mutant) the payload also carries the item's kind
UpdatePayload_WithKind(p, e) ==
    [title |-> e.form.title, mediatype |-> "artwork"]

\* the update payload (updateData) built from the edit state e
UpdatePayload(p, e) ==
    IF p = "v2"
    THEN [title |-> trim(e.form.title), description |-> trim(e.form.description),
          type_detail |-> trim(e.form.type_detail)]
    ELSE [title |-> e.form.title, description |-> e.form.description,
          type_detail |-> e.form.type_detail, name |-> e.form.name]

\* the Update button (v2: handleUpdateMedia) or Save button (v1: handleUpdate),
\* up to the awaited update
handleUpdateMedia ==
    /\ Issued({"update"}) < MaxManageOps
    /\ editing # NoItem
    /\ panel = "v2" => (~uploadState.isUploading /\ trim(newMedia.title) # "")
    /\ IF panel = "v2" /\ trim(editing.form.title) = ""
       THEN /\ adminError' = "validation"
            /\ UNCHANGED <<uploadState, opCount, mops, mcalls>>
       ELSE /\ uploadState' = (IF panel = "v2" THEN UploadingState ELSE uploadState)
            /\ opCount' = opCount + 1
            /\ mops' = mops \cup
                   {[id |-> opCount + 1, kind |-> "update", pc |-> "update",
                     target |-> editing.id, changed |-> editing.changed,
                     payload |-> UpdatePayload(panel, editing)]}
            /\ mcalls' = mcalls \cup {MCall(opCount + 1, "update", editing.id, NoPath, "")}
            /\ UNCHANGED adminError
    /\ UNCHANGED <<panel, pickable, typable, activeTab, newMedia, notification, ops,
                   resetTimers, clock, blobs, calls, failedMain>>
    /\ UNCHANGED <<uploadMethod, editing, confirmDialog, isDeleting, stateTimers>>
    /\ UNCHANGED <<syncRest, catalog, nextId>>

\* row r after `update(payload).eq('id', r.id)`
Updated(r, payload) ==
    [f \in DOMAIN r |-> IF f \in DOMAIN payload THEN payload[f] ELSE r[f]]

\* the store executes the update of invocation o: every row with the id changes
CatalogAfterUpdate(o) ==
    {IF r.id = o.target THEN Updated(r, o.payload) ELSE r : r \in catalog}

\* the kinds of the rows with the given id
KindsOf(id) == {r.mediatype : r \in {x \in catalog : x.id = id}}

\* the update handler resumes after `await supabase...update(updateData).eq('id', id)`
handleUpdateMedia_afterUpdate(o, outcome) ==
    /\ o \in mops
    /\ o.kind = "update"
    /\ o.pc = "update"
    /\ outcome \in Outcomes
    /\ IF outcome = "ok"
       THEN /\ catalog' = CatalogAfterUpdate(o)
            /\ mcalls' = mcalls \cup {MCall(o.id, "update.ok", o.target, NoPath, "")}
            /\ mutations' = IF catalog' = catalog THEN mutations ELSE mutations + 1
            /\ events' = IF catalog' = catalog \/ KindsOf(o.target) = {} THEN events
                         ELSE Emit("UPDATE", CHOOSE k \in KindsOf(o.target) : TRUE)
            /\ IF panel = "v2"
               THEN /\ uploadState' = SuccessState
                    /\ editing' = NoItem
                    /\ stateTimers' = stateTimers + 1
                    /\ mops' = mops \ {o}
                    /\ UNCHANGED <<notification, fetches, fetchSeq>>
               ELSE \* await fetchMediaItems(), then the edit state is cleared
                    /\ notification' = "success"
                    /\ fetchSeq' = fetchSeq + 1
                    /\ fetches' = fetches \cup {NewFetch(fetchSeq + 1)}
                    /\ mops' = (mops \ {o}) \cup
                               {[o EXCEPT !.pc = "refetch", !.target = fetchSeq + 1]}
                    /\ UNCHANGED <<uploadState, editing, stateTimers>>
            /\ UNCHANGED adminError
       ELSE /\ IF panel = "v2"
               THEN Abort(IF outcome = "error" THEN "persist" ELSE "exception")
               ELSE notification' = "error" /\ UNCHANGED <<uploadState, adminError>>
            /\ mops' = mops \ {o}
            /\ UNCHANGED <<catalog, mutations, events, fetches, fetchSeq, editing,
                           stateTimers, mcalls>>
    /\ UNCHANGED <<panel, pickable, typable, activeTab, newMedia, ops, opCount,
                   resetTimers, clock, blobs, calls, failedMain>>
    /\ UNCHANGED <<uploadMethod, confirmDialog, isDeleting>>
    /\ UNCHANGED <<modalVars, view, isAuthenticated, mounted, nextId, mediaItems, loading, error, snapshotSeq,
                   lastOutcome>>

\* v1: handleUpdate resumes after `await fetchMediaItems()`
handleUpdate_afterRefetch(o) ==
    /\ o \in mops
    /\ o.kind = "update"
    /\ o.pc = "refetch"
    /\ \A f \in fetches : f.seq # o.target
    /\ mops' = mops \ {o}
    /\ editing' = NoItem
    /\ UNCHANGED uploadState
    /\ UNCHANGED <<panel, pickable, typable, activeTab, newMedia, adminError,
                   notification, ops, opCount, resetTimers, clock, blobs, calls,
                   failedMain>>
    /\ UNCHANGED <<uploadMethod, confirmDialog, isDeleting, mcalls, stateTimers>>
    /\ UNCHANGED <<syncRest, catalog, nextId>>

\* v2: the callback of setTimeout(() => resetUploadState(), 2000)
resetUploadStateTimer ==
    /\ stateTimers > 0
    /\ stateTimers' = stateTimers - 1
    /\ uploadState' = IdleState
    /\ UNCHANGED <<panel, pickable, typable, activeTab, newMedia, adminError,
                   notification, ops, opCount, resetTimers, clock, blobs, calls,
                   failedMain>>
    /\ UNCHANGED <<uploadMethod, editing, confirmDialog, isDeleting, mops, mcalls>>
    /\ UNCHANGED <<syncRest, catalog, nextId>>

\* ------------------------------------------------------------------------
\* Admin panel: deletes
\* ------------------------------------------------------------------------

DeleteFrame ==
    /\ UNCHANGED <<panel, pickable, typable, activeTab, newMedia, uploadState, ops,
                   resetTimers, clock, calls, failedMain>>
    /\ UNCHANGED <<uploadMethod, editing, stateTimers>>
    /\ UNCHANGED <<modalVars, view, isAuthenticated, mounted, nextId, mediaItems, loading, error, snapshotSeq,
                   lastOutcome>>

\* v2: the Delete button of a listed item opens the confirmation dialog
handleDeleteMedia(r) ==
    /\ panel = "v2"
    /\ r \in mediaItems
    /\ r.mediatype = activeTab
    /\ isDeleting # r.id
    /\ confirmDialog # r
    /\ confirmDialog' = r
    /\ UNCHANGED <<adminError, notification, opCount, blobs, isDeleting, mops, mcalls>>
    /\ UNCHANGED <<catalog, mutations, events, fetches, fetchSeq>>
    /\ DeleteFrame

\* v2: the Cancel button of the dialog
cancelDelete ==
    /\ panel = "v2"
    /\ confirmDialog # NoItem
    /\ confirmDialog' = NoItem
    /\ UNCHANGED <<adminError, notification, opCount, blobs, isDeleting, mops, mcalls>>
    /\ UNCHANGED <<catalog, mutations, events, fetches, fetchSeq>>
    /\ DeleteFrame

\* a delete invocation for item r, suspended at pc
DeleteOp(id, r, pc) ==
    [id |-> id, kind |-> "delete", pc |-> pc, item |-> r, deleted |-> FALSE]

\* v2: the Delete button of the dialog (onConfirm), up to the awaited row delete
confirmDelete ==
    /\ panel = "v2"
    /\ confirmDialog # NoItem
    /\ Issued({"delete"}) < MaxConfirms
    /\ opCount' = opCount + 1
    /\ isDeleting' = confirmDialog.id
    /\ adminError' = NULL
    /\ mops' = mops \cup {DeleteOp(opCount + 1, confirmDialog, "row")}
    /\ mcalls' = mcalls \cup {MCall(opCount + 1, "delete", confirmDialog.id, NoPath, "")}
    /\ UNCHANGED <<notification, blobs, confirmDialog>>
    /\ UNCHANGED <<catalog, mutations, events, fetches, fetchSeq>>
    /\ DeleteFrame

\* v1: the Delete button (handleDelete(item.id, item.storagepath)), up to its
\* first await: the object removal if the item has a storage path, else the
\* row delete
handleDelete(r) ==
    /\ panel = "v1"
    /\ r \in mediaItems
    /\ Issued({"delete", "remove.main"}) < MaxManageOps
    /\ opCount' = opCount + 1
    /\ IF r.storagepath # NoPath
       THEN /\ mops' = mops \cup {DeleteOp(opCount + 1, r, "main")}
            /\ mcalls' = mcalls \cup
                   {MCall(opCount + 1, "remove.main", r.id, r.storagepath, "")}
       ELSE /\ mops' = mops \cup {DeleteOp(opCount + 1, r, "row")}
            /\ mcalls' = mcalls \cup {MCall(opCount + 1, "delete", r.id, NoPath, "")}
    /\ UNCHANGED <<adminError, notification, blobs, confirmDialog, isDeleting>>
    /\ UNCHANGED <<catalog, mutations, events, fetches, fetchSeq>>
    /\ DeleteFrame

\* the `finally` block of onConfirm (v2); v1 has no state to restore
DeleteDone ==
    /\ isDeleting' = (IF panel = "v2" THEN 0 ELSE isDeleting)
    /\ confirmDialog' = (IF panel = "v2" THEN NoItem ELSE confirmDialog)

\* what the catch block of a delete handler shows
DeleteFailed ==
    IF panel = "v2"
    THEN adminError' = "delete" /\ UNCHANGED notification
    ELSE notification' = "error" /\ UNCHANGED adminError

\* the await that follows the step at o.pc of a delete handler (v2), once that
\* step did not leave the handler: the main object if the item is a stored
\* file, then the thumbnail if the item has one; v1 removes nothing after the
\* row delete
NextRemoval(p, o) ==
    IF p = "v1" THEN "done"
    ELSE IF o.pc = "row" /\ ~o.item.isexternallink /\ o.item.storagepath # NoPath
    THEN "main"
    ELSE IF o.pc \in {"row", "main"} /\ o.item.video_thumbnail_path # NoPath
    THEN "thumb"
    ELSE "done"

\* the handler goes on from o to pc `next`, issuing that removal
DeleteGoesOn(o, next, log) ==
    IF next = "done"
    THEN /\ mops' = mops \ {o}
         /\ mcalls' = log
         /\ DeleteDone
    ELSE /\ mops' = (mops \ {o}) \cup {[o EXCEPT !.pc = next, !.deleted = TRUE]}
         /\ mcalls' = log \cup
                {MCall(o.id, IF next = "main" THEN "remove.main" ELSE "remove.thumb",
                       o.item.id,
                       IF next = "main" THEN o.item.storagepath
                       ELSE o.item.video_thumbnail_path, "")}
         /\ UNCHANGED <<isDeleting, confirmDialog>>

\* a delete handler resumes after `await ...delete().eq('id', id)`
handleDelete_afterDelete(o, outcome) ==
    /\ o \in mops
    /\ o.kind = "delete"
    /\ o.pc = "row"
    /\ outcome \in Outcomes
    /\ IF outcome = "ok"
       THEN /\ catalog' = {r \in catalog : r.id # o.item.id}
            /\ mutations' = IF catalog' = catalog THEN mutations ELSE mutations + 1
            /\ events' = IF catalog' = catalog THEN events
                         ELSE Emit("DELETE", o.item.mediatype)
            /\ DeleteGoesOn(o, NextRemoval(panel, o),
                            mcalls \cup {MCall(o.id, "delete.ok", o.item.id, NoPath, "")})
            /\ IF panel = "v1"
               THEN \* fetchMediaItems()
                    /\ notification' = "success"
                    /\ fetchSeq' = fetchSeq + 1
                    /\ fetches' = fetches \cup {NewFetch(fetchSeq + 1)}
                    /\ UNCHANGED adminError
               ELSE UNCHANGED <<notification, adminError, fetches, fetchSeq>>
       ELSE /\ DeleteFailed
            /\ mops' = mops \ {o}
            /\ DeleteDone
            /\ UNCHANGED <<catalog, mutations, events, fetches, fetchSeq, mcalls>>
    /\ UNCHANGED <<opCount, blobs>>
    /\ DeleteFrame

\* a delete handler resumes after `await supabase.storage.remove([path])`: an
\* error result is logged and the handler goes on, a rejection lands in the
\* catch block
handleDelete_afterRemove(o, outcome) ==
    /\ o \in mops
    /\ o.kind = "delete"
    /\ o.pc \in {"main", "thumb"}
    /\ outcome \in Outcomes
    /\ LET path == IF o.pc = "main" THEN o.item.storagepath
                   ELSE o.item.video_thumbnail_path
       IN  blobs' = IF outcome = "ok" THEN {b \in blobs : b.path # path} ELSE blobs
    /\ IF outcome = "throw"
       THEN /\ DeleteFailed
            /\ mops' = mops \ {o}
            /\ DeleteDone
            /\ UNCHANGED mcalls
       ELSE /\ IF panel = "v1"
               THEN \* the row delete follows the removal
                    /\ mops' = (mops \ {o}) \cup {[o EXCEPT !.pc = "row"]}
                    /\ mcalls' = mcalls \cup {MCall(o.id, "delete", o.item.id, NoPath, "")}
                    /\ UNCHANGED <<isDeleting, confirmDialog>>
               ELSE DeleteGoesOn(o, NextRemoval(panel, o), mcalls)
            /\ UNCHANGED <<adminError, notification>>
    /\ UNCHANGED <<opCount, catalog, mutations, events, fetches, fetchSeq>>
    /\ DeleteFrame

\* ------------------------------------------------------------------------
\* Admin panel: managing the catalog
\* ------------------------------------------------------------------------

\* an earlier upload of a video with a thumbnail, as handleFileUpload leaves it
SeedOp ==
    LET f == CHOOSE x \in Files : x.name = "f.mp4"
        t == CHOOSE x \in Files : x.name = "a b.png"
    IN  [id |-> 0, file |-> f, thumb |-> t, tab |-> "video", title |-> "t0",
         description |-> "", type_detail |-> "", ts |-> 0, pc |-> "insert",
         fileName |-> MainPath(panel, "video", 0, f),
         thumbnailFileName |-> ThumbPath(panel, 0, t),
         thumbnailPath |-> ThumbPath(panel, 0, t), thumbFailed |-> FALSE]

\* one uploaded video in the catalog, in the bucket and in the panel's list
SeededStore ==
    /\ blobs = {[path |-> SeedOp.fileName, file |-> SeedOp.file],
                [path |-> SeedOp.thumbnailPath, file |-> SeedOp.thumb]}
    /\ view = (IF panel = "v2" THEN "admin" ELSE "adminV1")
    /\ isAuthenticated = TRUE
    /\ NoModal
    /\ mounted = TRUE
    /\ catalog = {UploadRow(SeedOp, 1)}
    /\ nextId = 2
    /\ events = 0
    /\ mutations = 0
    /\ fetches = {}
    /\ fetchSeq = 0
    /\ mediaItems = catalog
    /\ loading = FALSE
    /\ error = NULL
    /\ snapshotSeq = 0
    /\ lastOutcome = "none"

\* the panel as constructed, over that catalog
SeededInit ==
    /\ panel \in {"v1", "v2"}
    /\ pickable = {}
    /\ typable = {"t1"}
    /\ PanelIdle
    /\ SeededStore

\* the same, with the Videos tab showing and a title typed into the form
EditsInit ==
    /\ panel \in {"v1", "v2"}
    /\ pickable = {}
    /\ typable = {"t1"}
    /\ activeTab = "video"
    /\ newMedia = [EmptyForm EXCEPT !.title = "t0"]
    /\ uploadMethod = "file"
    /\ HandlersIdle
    /\ SeededStore

\* the panel over an empty catalog, for a user who adds links
LinkFormInit ==
    /\ panel \in {"v1", "v2"}
    /\ pickable = {}
    /\ typable = {"t1"}
    /\ AdminIdle
    /\ SyncIdle

\* the same panel once the user has filled in the link form: a tab, the link
\* method, a title and a URL
LinkLifeInit ==
    /\ panel \in {"v1", "v2"}
    /\ pickable = {}
    /\ typable = {"t1"}
    /\ activeTab \in Kinds
    /\ uploadMethod = "link"
    /\ \E u \in {x \in Urls : validateUrl(x)} :
           newMedia = [EmptyForm EXCEPT !.title = "t0", !.externalUrl = u]
    /\ HandlersIdle
    /\ blobs = {}
    /\ SyncIdle

\* the list is refreshed: the change callback and the fetch it starts
RefreshNext ==
    \/ (fetches = {} /\ DeliverEvent)
    \/ \E f \in fetches : FetchServe(f, "ok")
    \/ \E f \in fetches : FetchResolve(f)

\* the user submits the link form
SubmitNext ==
    \/ handleLinkSubmission
    \/ \E o \in mops, outcome \in Outcomes : handleLinkSubmission_afterInsert(o, outcome)
    \/ resetFormTimer

\* the user fills in the link form and submits it
LinkFormNext ==
    \/ \E t \in Kinds : setActiveTab(t)
    \/ \E t \in FormTitles : setTitle(t)
    \/ \E m \in {"file", "link"} : setUploadMethod(m)
    \/ \E u \in Urls : setExternalUrl(u)
    \/ \E t \in {"image", "video"} : setLinkType(t)
    \/ SubmitNext
    \/ clearNotification

SpecLinkForm == LinkFormInit /\ [][LinkFormNext]_vars

\* the user edits fields F of an item of the list
EditNext(F) ==
    \/ \E r \in mediaItems : startEdit(r)
    \/ \E f \in F, t \in typable : editField(f, t)
    \/ cancelEdit
    \/ handleUpdateMedia
    \/ \E o \in mops, outcome \in Outcomes : handleUpdateMedia_afterUpdate(o, outcome)
    \/ \E o \in mops : handleUpdate_afterRefetch(o)
    \/ resetUploadStateTimer

\* the user deletes an item of the list
DeleteNext ==
    \/ \E r \in mediaItems : handleDeleteMedia(r)
    \/ cancelDelete
    \/ confirmDelete
    \/ \E r \in mediaItems : handleDelete(r)
    \/ \E o \in mops, outcome \in Outcomes : handleDelete_afterDelete(o, outcome)

\* a link is added, listed, and then edited or deleted
LinkLifeNext ==
    \/ SubmitNext
    \/ EditNext({"title"})
    \/ DeleteNext
    \/ RefreshNext

SpecLinkLife == LinkLifeInit /\ [][LinkLifeNext]_vars

\* the seeded item is edited, by this panel and by another session
EditsNext ==
    \/ \E r \in catalog, t \in typable : StoreUpdate(r, t)
    \/ EditNext(EditFields)
    \/ RefreshNext

SpecEdits == EditsInit /\ [][EditsNext]_vars

\* the seeded item is deleted, by this panel and by another session
DeletesNext ==
    \/ \E t \in Kinds : setActiveTab(t)
    \/ \E r \in catalog : StoreDelete(r)
    \/ DeleteNext
    \/ \E o \in mops, outcome \in Outcomes : handleDelete_afterRemove(o, outcome)
    \/ RefreshNext
    \/ clearNotification

SpecDeletes == SeededInit /\ [][DeletesNext]_vars

\* ------------------------------------------------------------------------
\* Properties of the file upload
\* ------------------------------------------------------------------------

\* C6: an upload whose main file fails validation (type or size) issues no call to
\* the object store or to the catalog store: every store call of a file upload
\* is made for a main file that passes validateFile.
C6_InvalidMainNoCalls == \A c \in calls : validateFile(c.file, FALSE)

\* C7: every record created by a file upload with mediatype artwork has an allowed
\* image type and at most 10 MB, and every record with mediatype video has an
\* allowed video type and at most 100 MB.
C7_RowsObeyKind ==
    \A r \in catalog :
        /\ r.mediatype = "artwork" =>
               r.type \in ALLOWED_IMAGE_TYPES /\ r.size <= 10 * MB
        /\ r.mediatype = "video" =>
               r.type \in ALLOWED_VIDEO_TYPES /\ r.size <= 100 * MB

\* C8: a video upload whose thumbnail is not an allowed image type or is larger
\* than 5 MB issues no upload call: every store call of a video upload that
\* carries a thumbnail carries one that is an allowed image of at most 5 MB.
C8_BadThumbnailNoUpload ==
    \A c \in calls :
        (c.tab = "video" /\ c.thumb # NoFile) =>
            c.thumb.type \in ALLOWED_IMAGE_TYPES /\ c.thumb.size <= 5 * MB

\* C9: within one upload the catalog insert is attempted only after the main file
\* upload has completed successfully (its object is in the bucket and the insert
\* is not issued while the upload is pending); an upload whose main file upload
\* failed is over, has attempted no insert, and has created no row.
C9_InsertAfterUpload ==
    /\ \A c \in calls :
           c.call = "insert" =>
               /\ c.op \notin failedMain
               /\ c.path \in Paths
               /\ \A o \in ops : o.id = c.op => o.pc = "insert"
    /\ \A o \in ops : o.id \notin failedMain
    /\ \A r \in catalog : r.op \notin failedMain /\ r.storagepath \in Paths

\* C9 witness: a main file upload has failed and its operation is over
C9_Witness ==
    /\ ops = {}
    /\ \E c \in calls : c.call = "storage.upload" /\ c.op \in failedMain

\* C10: when the thumbnail upload of an operation returns an error, the operation
\* proceeds to the catalog insert with a null thumbnail path, and nothing the
\* user sees changes: no notification, no error text, no change of upload state.
C10_Step ==
    \A o \in ops : \A o2 \in ops' :
        (o.pc = "thumbnail" /\ o2.id = o.id /\ o2.thumbFailed) =>
            /\ o2.pc = "insert"
            /\ o2.thumbnailPath = NoPath
            /\ UNCHANGED <<notification, adminError, uploadState>>

C10_ThumbnailFailureSilent == [][C10_Step]_vars

\* C11: when the catalog insert of an upload fails, the step that handles the
\* failure issues no store call and removes nothing: the objects the operation
\* uploaded are still in the bucket and the catalog has no record for them.
C11_Step ==
    \A o \in ops :
        (o.pc = "insert" /\ o \notin ops' /\ catalog' = catalog) =>
            /\ calls' = calls
            /\ blobs' = blobs
            /\ o.fileName \in {b.path : b \in blobs'}
            /\ o.thumbnailPath # NoPath => o.thumbnailPath \in {b.path : b \in blobs'}
            /\ \A r \in catalog' : r.storagepath # o.fileName

C11_NoRollback == [][C11_Step]_vars

\* C11 witness: an upload with a thumbnail is over, its insert was attempted and
\* failed, both objects are in the bucket and the catalog is empty
C11_Witness ==
    /\ ops = {}
    /\ catalog = {}
    /\ \E c \in calls : c.call = "insert"
    /\ \E b \in blobs : b.path.dir = "thumbnails"
    /\ \E b \in blobs : b.path.dir = "videos"

\* C12: when the insert of a file upload succeeds, the catalog gains exactly one
\* record, and that record's title, description, kind and type detail equal the
\* values submitted with the form.
C12_Step ==
    \A o \in ops :
        (o.pc = "insert" /\ o \notin ops' /\ catalog' # catalog) =>
            /\ catalog \subseteq catalog'
            /\ Cardinality(catalog' \ catalog) = 1
            /\ \A r \in catalog' \ catalog :
                   /\ r.title = o.title
                   /\ r.description = o.description
                   /\ r.mediatype = o.tab
                   /\ r.type_detail = o.type_detail

C12_RecordMatchesSubmission == [][C12_Step]_vars

\* ------------------------------------------------------------------------
\* Properties of links, edits and deletes
\* ------------------------------------------------------------------------

\* C13: a link submission whose URL does not parse as an absolute URL inserts
\* nothing: every insert a link handler issues carries a URL that parses
C13_InvalidUrlNoInsert ==
    \A c \in mcalls : c.call = "insert" => validateUrl(c.url)

\* C15: the type tag of every record created by a link submission agrees with
\* its kind: "video-link" for a video, "image-link" for an artwork
C15_LinkTagMatchesKind ==
    \A r \in catalog : r.isexternallink =>
        r.type = (IF r.mediatype = "video" THEN "video-link" ELSE "image-link")

UpdateSucceeds(o) ==
    /\ o \in mops
    /\ o.kind = "update"
    /\ o.pc = "update"
    /\ MCall(o.id, "update.ok", o.target, NoPath, "") \in mcalls' \ mcalls

\* C16: an edit sends only the fields the user set in the edit form, and after
\* it the record has those fields at the submitted values and every other
\* field as it was in the store before the edit
C16_Step ==
    \A o \in mops : UpdateSucceeds(o) =>
        /\ DOMAIN o.payload \subseteq o.changed
        /\ \A r \in catalog : r.id = o.target =>
               \E r2 \in catalog' :
                   /\ r2.id = r.id
                   /\ \A f \in DOMAIN r :
                          r2[f] = (IF f \in o.changed THEN o.payload[f] ELSE r[f])

C16_PartialUpdate == [][C16_Step]_vars

\* the identity, kind and location fields of a record
LocationFields ==
    {"id", "mediatype", "isexternallink", "url", "storagepath", "video_thumbnail_url",
     "video_thumbnail_path"}

\* C17: the payload of an edit holds only title, description, type_detail and
\* name, and a successful edit leaves the id, kind and location fields of
\* every record as they were
C17_Step ==
    \A o \in mops : UpdateSucceeds(o) =>
        /\ DOMAIN o.payload \subseteq EditFields
        /\ \A r \in catalog :
               \E r2 \in catalog' : \A f \in LocationFields : r2[f] = r[f]
        /\ Cardinality(catalog') = Cardinality(catalog)

C17_EditKeepsLocation == [][C17_Step]_vars

\* an edit of the description went through
C17_Witness ==
    \E r \in catalog :
        /\ r.description = "t1"
        /\ r.storagepath # NoPath
        /\ \E c \in mcalls : c.call = "update.ok" /\ c.target = r.id

\* the row delete of invocation id has succeeded, according to log
RowDeleted(id, log) == \E c \in log : c.op = id /\ c.call = "delete.ok"

\* C18: a delete handler issues an object removal only after its row delete
\* succeeded, so no listed row of the catalog points to a removed object
C18_RowBeforeBlobs ==
    /\ \A c \in mcalls : c.call \in {"remove.main", "remove.thumb"} => RowDeleted(c.op, mcalls)
    /\ \A r \in catalog : r.storagepath # NoPath => \E b \in blobs : b.path = r.storagepath

\* C19: once the row delete of a delete handler succeeded, no later step of
\* that handler sets an error, whatever the removals of the objects return
C19_Step ==
    \A o \in mops : (o.kind = "delete" /\ o.deleted /\ o \notin mops') =>
        /\ adminError' = adminError
        /\ notification' = "error" => notification = "error"

C19_NoErrorAfterRowDelete == [][C19_Step]_vars

\* C20: a delete handler whose row delete succeeded on a record with a
\* thumbnail path has attempted the removal of the thumbnail when it ends
C20_Step ==
    \A o \in mops :
        ( /\ o.kind = "delete"
          /\ \A o2 \in mops' : o2.id # o.id
          /\ RowDeleted(o.id, mcalls')
          /\ o.item.video_thumbnail_path # NoPath )
        => \E c \in mcalls' : c.op = o.id /\ c.call = "remove.thumb"

C20_ThumbnailRemovalAttempted == [][C20_Step]_vars

\* the row delete of invocation o is answered in this step, and the catalog
\* holds no row with the id it names
DeletesMissingRow(o) ==
    /\ o \in mops
    /\ o.kind = "delete"
    /\ o.pc = "row"
    /\ o \notin mops'
    /\ \A r \in catalog : r.id # o.item.id

\* C21: a delete of an id that is no longer in the catalog is reported as a
\* failure and the handler issues no object removal, before or after
C21_Step ==
    \A o \in mops : DeletesMissingRow(o) =>
        /\ IF panel = "v2" THEN adminError' # NULL ELSE notification' = "error"
        /\ \A c \in mcalls' : c.op = o.id => c.call \notin {"remove.main", "remove.thumb"}

C21_MissingRowFails == [][C21_Step]_vars

\* ------------------------------------------------------------------------
\* Admin panel (v2): the session
\* ------------------------------------------------------------------------

\* the mount effect's checkSession(), suspended at `await supabase.auth.getSession()`
CheckSessionOp == [id |-> 0, kind |-> "checkSession", pc |-> "getSession"]

\* the panel has just been mounted: not authenticated, the session check pending
AuthInit ==
    /\ panel = "v2"
    /\ pickable = {}
    /\ typable = FormTitles
    /\ activeTab = "artwork"
    /\ newMedia = EmptyForm
    /\ uploadMethod = "file"
    /\ uploadState = IdleState
    /\ adminError = NULL
    /\ notification = NULL
    /\ ops = {}
    /\ opCount = 0
    /\ resetTimers = 0
    /\ clock = 0
    /\ blobs = {}
    /\ calls = {}
    /\ failedMain = {}
    /\ editing = NoItem
    /\ confirmDialog = NoItem
    /\ isDeleting = 0
    /\ mops = {CheckSessionOp}
    /\ mcalls = {}
    /\ stateTimers = 0
    /\ view = "admin"
    /\ isAuthenticated = FALSE
    /\ NoModal
    /\ mounted = TRUE
    /\ catalog = {}
    /\ nextId = 1
    /\ events = 0
    /\ mutations = 0
    /\ fetches = {}
    /\ fetchSeq = 0
    /\ mediaItems = {}
    /\ loading = FALSE
    /\ error = NULL
    /\ snapshotSeq = 0
    /\ lastOutcome = "none"

\* setIsAuthenticated(b) and the effect that depends on isAuthenticated: when
\* it becomes true the effect fetches and subscribes, when it becomes false the
\* cleanup unsubscribes; fetches in flight are left alone
setIsAuthenticated(b) ==
    /\ isAuthenticated' = b
    /\ IF b /\ ~isAuthenticated
       THEN /\ fetchSeq < MaxFetches
            /\ fetchSeq' = fetchSeq + 1
            /\ fetches' = fetches \cup {NewFetch(fetchSeq + 1)}
            /\ UNCHANGED events
       ELSE /\ events' = (IF b THEN events ELSE 0)
            /\ UNCHANGED <<fetches, fetchSeq>>

AuthFrame ==
    /\ UNCHANGED <<panel, pickable, typable, activeTab, newMedia, uploadState,
                   adminError, notification, ops, opCount, resetTimers, clock, blobs,
                   calls, failedMain>>
    /\ UNCHANGED <<uploadMethod, editing, confirmDialog, isDeleting, mcalls, stateTimers>>
    /\ UNCHANGED <<modalVars, view, mounted, catalog, nextId, mutations, loading, error,
                   snapshotSeq, lastOutcome>>

\* checkSession resumes: a session sets isAuthenticated, no session, an error
\* result or a rejection clears it
checkSession_afterGetSession(o, hasSession) ==
    /\ mounted
    /\ o \in mops
    /\ o.kind = "checkSession"
    /\ mops' = mops \ {o}
    /\ setIsAuthenticated(hasSession)
    /\ UNCHANGED mediaItems
    /\ AuthFrame

\* the onAuthStateChange listener: setIsAuthenticated(!!session), and the
\* snapshot is cleared on SIGNED_OUT
onAuthStateChange(event) ==
    /\ mounted
    /\ event \in {"SIGNED_IN", "SIGNED_OUT"}
    /\ isAuthenticated = (event = "SIGNED_OUT")
    /\ setIsAuthenticated(event = "SIGNED_IN")
    /\ mediaItems' = (IF event = "SIGNED_OUT" THEN {} ELSE mediaItems)
    /\ UNCHANGED mops
    /\ AuthFrame

\* the Logout button, up to `await supabase.auth.signOut()`
handleLogout ==
    /\ mounted
    /\ isAuthenticated
    /\ \A o \in mops : o.kind # "logout"
    /\ mops' = mops \cup {[id |-> 0, kind |-> "logout", pc |-> "signOut"]}
    /\ UNCHANGED <<isAuthenticated, events, fetches, fetchSeq, mediaItems>>
    /\ AuthFrame

\* handleLogout resumes: after a result (an error is only logged) the flag and
\* the snapshot are cleared, a rejection is only logged
handleLogout_afterSignOut(o, outcome) ==
    /\ mounted
    /\ o \in mops
    /\ o.kind = "logout"
    /\ outcome \in Outcomes
    /\ mops' = mops \ {o}
    /\ IF outcome = "throw"
       THEN UNCHANGED <<isAuthenticated, events, fetches, fetchSeq, mediaItems>>
       ELSE /\ setIsAuthenticated(FALSE)
            /\ mediaItems' = {}
    /\ AuthFrame

AuthNext ==
    \/ \E o \in mops, b \in BOOLEAN : checkSession_afterGetSession(o, b)
    \/ \E e \in {"SIGNED_IN", "SIGNED_OUT"} : onAuthStateChange(e)
    \/ handleLogout
    \/ \E o \in mops, outcome \in Outcomes : handleLogout_afterSignOut(o, outcome)
    \/ \E k \in Kinds : StoreInsert(k)
    \/ DeliverEvent
    \/ \E f \in fetches, o \in Outcomes : FetchServe(f, o)
    \/ \E f \in fetches : FetchResolve(f)
    \/ Unmount

SpecAuth == AuthInit /\ [][AuthNext]_vars

\* the view's channel is subscribed
Subscribed == mounted /\ isAuthenticated

\* C22: once a view has unsubscribed, no change notification starts a fetch for
\* it and no fetch response changes its snapshot
C22_Step ==
    (~Subscribed /\ ~Subscribed') =>
        /\ fetchSeq' = fetchSeq
        /\ \A f \in fetches : (f.phase = "served" /\ f \notin fetches') =>
               mediaItems' = mediaItems

C28_SignedOutSnapshotEmpty ==
    (view = "admin" /\ mounted /\ ~isAuthenticated) => mediaItems = {}

\* ------------------------------------------------------------------------
\* Admin panel: uploading over a bucket that holds earlier uploads
\* ------------------------------------------------------------------------

\* the panel over the seeded bucket, on the Videos tab, for a user who has the
\* uploaded video and its thumbnail at hand
ReuploadInit ==
    /\ panel \in {"v1", "v2"}
    /\ pickable = {f \in Files : f.name \in {"a b.png", "f.mp4"}}
    /\ typable = FormTitles
    /\ activeTab = "video"
    /\ newMedia = EmptyForm
    /\ uploadMethod = "file"
    /\ HandlersIdle
    /\ SeededStore

SpecReupload == ReuploadInit /\ [][UploadNext]_vars

\* C23: no upload is issued to a path that an earlier upload wrote
C23_Step ==
    \A c \in calls' \ calls : c.call = "storage.upload" => c.path \notin Paths

C23_UploadPathsDistinct == [][C23_Step]_vars

\* ------------------------------------------------------------------------
\* Admin panel: all four operations over one catalog
\* ------------------------------------------------------------------------

\* the panel over the seeded catalog, on the Videos tab, its form holding a
\* title, a selected video and a valid URL, with either method chosen
LifecycleInit ==
    /\ panel \in {"v1", "v2"}
    /\ pickable = {}
    /\ typable = {"t1"}
    /\ activeTab = "video"
    /\ uploadMethod \in {"file", "link"}
    /\ \E f \in {x \in Files : x.name = "f.mp4"}, u \in {x \in Urls : validateUrl(x)} :
           newMedia = [EmptyForm EXCEPT !.title = "t0", !.file = f, !.externalUrl = u]
    /\ HandlersIdle
    /\ SeededStore

LifecycleNext ==
    \/ handleFileUpload
    \/ \E o \in ops, outcome \in Outcomes : handleFileUpload_afterUpload(o, outcome)
    \/ \E o \in ops, outcome \in Outcomes : handleFileUpload_afterInsert(o, outcome)
    \/ SubmitNext
    \/ EditNext({"title"})
    \/ DeleteNext
    \/ \E o \in mops, outcome \in Outcomes : handleDelete_afterRemove(o, outcome)
    \/ \E f \in fetches : FetchServe(f, "ok")
    \/ \E f \in fetches : FetchResolve(f)

SpecLifecycle == LifecycleInit /\ [][LifecycleNext]_vars

\* no handler invocation is suspended at an await
NothingInFlight == ops = {} /\ mops = {}

\* C24: once every operation has finished, whatever its outcome, no
\* in-progress flag is left set
C24_IdleAfterOperations ==
    NothingInFlight => (~uploadState.isUploading /\ isDeleting = 0)

\* an upload has failed at its first step and has finished
C24_Witness == NothingInFlight /\ failedMain # {}

\* an upload, a link submission or an update of the second AdminMediaManager
\* is suspended at a store call
UploadStateOpInFlight ==
    \/ ops # {}
    \/ \E o \in mops : o.kind \in {"link", "update"}

\* C25: in the second AdminMediaManager, while an upload, link submission or
\* update has a store call outstanding, uploadState.isUploading is true
C25_UploadingWhileInFlight ==
    (panel = "v2" /\ UploadStateOpInFlight) => uploadState.isUploading

\* ------------------------------------------------------------------------
\* Purchase inquiry modal
\* ------------------------------------------------------------------------

\* the characters the visitor types into the name and email inputs
NameChars == {"n", " "}
EmailChars == {"a", "@", ".", " "}
Whitespace == {" "}

\* String.prototype.trim() on a sequence of characters
RECURSIVE trimStart(_)
trimStart(s) == IF s # <<>> /\ Head(s) \in Whitespace THEN trimStart(Tail(s)) ELSE s

RECURSIVE trimEnd(_)
trimEnd(s) ==
    IF s # <<>> /\ s[Len(s)] \in Whitespace THEN trimEnd(SubSeq(s, 1, Len(s) - 1)) ELSE s

trimSeq(s) == trimEnd(trimStart(s))

\* s[a..b] matches [^\s@]+
NotSpaceOrAt(s, a, b) == a <= b /\ \A k \in a..b : s[k] \notin Whitespace \cup {"@"}

\* (mutant) a test that accepts an address without a dot after the @
emailRegexTest_NoDot(s) ==
    \E i \in 1..Len(s) :
        s[i] = "@" /\ NotSpaceOrAt(s, 1, i - 1) /\ NotSpaceOrAt(s, i + 1, Len(s))

\* /^[^\s@]+@[^\s@]+\.[^\s@]+$/.test(s)
emailRegexTest(s) ==
    \E i, j \in 1..Len(s) :
        /\ s[i] = "@"
        /\ s[j] = "."
        /\ NotSpaceOrAt(s, 1, i - 1)
        /\ NotSpaceOrAt(s, i + 1, j - 1)
        /\ NotSpaceOrAt(s, j + 1, Len(s))

\* emailState values
EmailLoading == [isLoading |-> TRUE, isSuccess |-> FALSE, isError |-> FALSE]
EmailSuccess == [isLoading |-> FALSE, isSuccess |-> TRUE, isError |-> FALSE]
EmailError == [isLoading |-> FALSE, isSuccess |-> FALSE, isError |-> TRUE]

\* the modal has just been opened over the Work page
InquiryInit ==
    /\ modalOpen = TRUE
    /\ formData = EmptyInquiry
    /\ emailState = EmailIdle
    /\ inquiries = {}
    /\ posted = 0
    /\ submits = 0
    /\ view = "work"
    /\ isAuthenticated = TRUE
    /\ mounted = TRUE
    /\ catalog = {}
    /\ nextId = 1
    /\ events = 0
    /\ mutations = 0
    /\ fetches = {}
    /\ fetchSeq = 0
    /\ mediaItems = {}
    /\ loading = FALSE
    /\ error = NULL
    /\ snapshotSeq = 0
    /\ lastOutcome = "none"
    /\ panel = "v2"
    /\ pickable = {}
    /\ typable = {}
    /\ AdminIdle

InquiryFrame == UNCHANGED <<syncVars, adminVars>>

\* the values one keystroke turns s into
Keystrokes(s, chars, max) ==
    {Append(s, c) : c \in IF Len(s) < max THEN chars ELSE {}}
        \cup (IF s = <<>> THEN {} ELSE {SubSeq(s, 1, Len(s) - 1)})

\* handleInputChange on the name and email inputs (disabled while loading)
handleInputChange(field, value) ==
    /\ modalOpen
    /\ ~emailState.isLoading
    /\ \/ field = "name" /\ value \in Keystrokes(formData.name, NameChars, MaxNameLen)
       \/ field = "email" /\ value \in Keystrokes(formData.email, EmailChars, MaxEmailLen)
    /\ formData' = [formData EXCEPT ![field] = value]
    /\ UNCHANGED <<modalOpen, emailState, inquiries, posted, submits>>
    /\ InquiryFrame

\* (mutant) a submit button that is disabled only while loading
submitDisabled_WhileLoading == emailState.isLoading

\* the disabled attribute of the submit button
submitDisabled == emailState.isLoading \/ emailState.isSuccess

\* the form is submitted: handleSubmit up to `await fetch(...)`
handleSubmit ==
    /\ modalOpen
    /\ ~submitDisabled
    /\ submits < MaxSubmits
    /\ submits' = submits + 1
    /\ IF trimSeq(formData.name) = <<>> \/ trimSeq(formData.email) = <<>>
       THEN /\ emailState' = EmailError
            /\ UNCHANGED <<inquiries, posted>>
       ELSE IF ~emailRegexTest(formData.email)
       THEN /\ emailState' = EmailError
            /\ UNCHANGED <<inquiries, posted>>
       ELSE /\ emailState' = EmailLoading
            /\ posted' = posted + 1
            /\ inquiries' = inquiries \cup {[id |-> submits + 1, pc |-> "fetch"]}
    /\ UNCHANGED <<modalOpen, formData>>
    /\ InquiryFrame

\* setEmailState on a component that may have been unmounted meanwhile
setEmailState(v) == emailState' = (IF modalOpen THEN v ELSE emailState)

\* handleSubmit resumes after `await fetch(...)`: a response that is ok is
\* parsed, a response that is not ok and a rejection end in the catch block
handleSubmit_afterFetch(o, outcome) ==
    /\ o \in inquiries
    /\ o.pc = "fetch"
    /\ outcome \in Outcomes
    /\ IF outcome = "ok"
       THEN /\ inquiries' = (inquiries \ {o}) \cup {[o EXCEPT !.pc = "json"]}
            /\ UNCHANGED emailState
       ELSE /\ inquiries' = inquiries \ {o}
            /\ setEmailState(EmailError)
    /\ UNCHANGED <<modalOpen, formData, posted, submits>>
    /\ InquiryFrame

\* handleSubmit resumes after `await response.json()`: result.success shows
\* the success state, anything else ends in the catch block
handleSubmit_afterJson(o, outcome) ==
    /\ o \in inquiries
    /\ o.pc = "json"
    /\ outcome \in Outcomes
    /\ inquiries' = inquiries \ {o}
    /\ setEmailState(IF outcome = "ok" THEN EmailSuccess ELSE EmailError)
    /\ UNCHANGED <<modalOpen, formData, posted, submits>>
    /\ InquiryFrame

\* the callback of the effect's setTimeout, armed while isError is set
clearError ==
    /\ modalOpen
    /\ emailState.isError
    /\ emailState' = [emailState EXCEPT !.isError = FALSE]
    /\ UNCHANGED <<modalOpen, formData, inquiries, posted, submits>>
    /\ InquiryFrame

\* onClose: the X button and the backdrop at any time, the Cancel button
\* unless loading, the timer set on success; the component's state is gone
onClose ==
    /\ modalOpen
    /\ modalOpen' = FALSE
    /\ formData' = EmptyInquiry
    /\ emailState' = EmailIdle
    /\ UNCHANGED <<inquiries, posted, submits>>
    /\ InquiryFrame

InquiryNext ==
    \/ \E v \in Keystrokes(formData.name, NameChars, MaxNameLen) :
           handleInputChange("name", v)
    \/ \E v \in Keystrokes(formData.email, EmailChars, MaxEmailLen) :
           handleInputChange("email", v)
    \/ handleSubmit
    \/ \E o \in inquiries, outcome \in Outcomes : handleSubmit_afterFetch(o, outcome)
    \/ \E o \in inquiries, outcome \in Outcomes : handleSubmit_afterJson(o, outcome)
    \/ clearError
    \/ onClose

SpecInquiry == InquiryInit /\ [][InquiryNext]_vars

\* C26: a POST is sent only by a submission of the form, one per submission,
\* and never while an earlier one is outstanding or after one has succeeded
C26_Step ==
    /\ posted' \in {posted, posted + 1}
    /\ posted' # posted =>
           /\ submits' = submits + 1
           /\ inquiries = {}
           /\ ~emailState.isSuccess

AddressForm(s) ==
    /\ \A k \in 1..Len(s) : s[k] \notin Whitespace
    /\ Cardinality({k \in 1..Len(s) : s[k] = "@"}) = 1
    /\ s[1] # "@"
    /\ \E j \in 1..Len(s) :
           /\ s[j] = "."
           /\ j < Len(s)
           /\ \E i \in 1..(j - 2) : s[i] = "@"

\* the form may be sent: name and email are not blank and the email is an address
InquiryValid ==
    /\ trimSeq(formData.name) # <<>>
    /\ trimSeq(formData.email) # <<>>
    /\ AddressForm(formData.email)

\* C27: a submission of a form that is not valid sends no POST and shows the
\* error state; a POST is sent only for a valid form
C27_Step ==
    (submits' = submits + 1 /\ ~InquiryValid) =>
        /\ posted' = posted
        /\ emailState' = [isLoading |-> FALSE, isSuccess |-> FALSE, isError |-> TRUE]

C27_InvalidFormNotSent == [][C27_Step]_vars

\* a form with a name and a malformed address was submitted and refused
C27_Witness ==
    /\ submits > 0
    /\ posted = 0
    /\ emailState.isError
    /\ trimSeq(formData.name) # <<>>
    /\ trimSeq(formData.email) # <<>>
    /\ ~AddressForm(formData.email)

\* ------------------------------------------------------------------------
\* Admin panel (v2): the submit button of the form
\* ------------------------------------------------------------------------

\* the disabled attribute of the button that reads Update while editingItem is
\* set and Upload or Save Link otherwise
saveDisabled ==
    \/ uploadState.isUploading
    \/ trim(newMedia.title) = ""
    \/ (editing = NoItem /\ uploadMethod = "file" /\ newMedia.file = NoFile)
    \/ (editing = NoItem /\ uploadMethod = "link" /\ trim(newMedia.externalUrl) = "")

\* C29: in the second AdminMediaManager, while a record with a non-blank title
\* is being edited and no operation is in flight, the Update button is enabled
C29_UpdateEnabledWhileEditing ==
    (panel = "v2" /\ editing # NoItem /\ trim(editing.form.title) # "" /\ NothingInFlight)
        => ~saveDisabled

\* C30: in the second AdminMediaManager no two deletes of one record are in
\* flight at the same time
C30_OneDeletePerRecord ==
    panel = "v2" =>
        \A o1, o2 \in mops :
            (o1.kind = "delete" /\ o2.kind = "delete" /\ o1.item.id = o2.item.id)
                => o1 = o2

====
